---- MODULE Spec2Model ----
(***************************************************************************)
(* DataSampleParser (src/src/data_sample_parser.rs): the orchestrator that *)
(* keeps one Profile per csv header in a BTreeMap, trains the profiles     *)
(* from a csv sample, generates records / csv files from them and archives *)
(* itself as JSON.                                                         *)
(*                                                                         *)
(* Profile lives in profile/profile.rs, which is not among the sources;    *)
(* it is modelled from the specification (analyze / pre_generate /         *)
(* generate and its serialised form).  The csv reader and writer, the file *)
(* system and serde_json are libraries: they are modelled by the contract  *)
(* the parser relies on (strict field counts, BTreeMap key order in JSON). *)
(***************************************************************************)
EXTENDS Naturals, Sequences, FiniteSets, TLC

\* ------------------------------------------------------------------ bounds
\* rows ingested over the life of the process
MaxRows == 2
\* fields in a header row (a data row may carry one field more)
MaxCols == 2
\* row_count handed to generate_csv
MaxGen == 1

\* header labels that occur in the samples
FieldNames == {"a", "b"}
\* seeds of the random source the profiles draw from
Seeds == {0, 1}
\* archive paths handed to from_file and to save (without extension)
Paths == {"p", "q"}
SavePaths == {"p"}

VARIABLES
    issues,      \* DataSampleParser.issues
    cfg,         \* DataSampleParser.cfg
    profiles,    \* DataSampleParser.profiles : BTreeMap<String, Profile>
    status,      \* "running", or "panicked" once a call has panicked
    sample,      \* the last csv sample handed to analyze_csv_data and what the call did
    ret,         \* the last call and what it returned
    files,       \* the file system: file name -> content
    archived,    \* history: path -> the parser a successful save wrote
    used         \* history: data rows ingested so far

vars == <<issues, cfg, profiles, status, sample, ret, files, archived, used>>

\* ------------------------------------------------------- String / BTreeMap
\* Ord for String, on the labels of the model
StrOrd(s) == CASE s = "a" -> 1 [] s = "b" -> 2 [] OTHER -> 3

\* BTreeMap::keys / iter / iter_mut: the keys in ascending order; the i-th
\* is the key with i - 1 smaller keys
SortedKeys(S) ==
    [i \in 1..Cardinality(S) |->
        CHOOSE x \in S : Cardinality({y \in S : StrOrd(y) < StrOrd(x)}) = i - 1]

\* an empty ProfilesMap
ProfilesMapNew == [k \in {} |-> 0]

\* BTreeMap::insert: adds the key or replaces the value under it
MapInsert(m, k, v) == [x \in DOMAIN m \cup {k} |-> IF x = k THEN v ELSE m[x]]

\* ----------------------------------------------------------------- Profile
\* Profile::new
ProfileNew == [obs |-> <<>>, finalized |-> FALSE]

\* Profile::analyze: empty values are ignored
ProfileAnalyze(p, value) ==
    IF value = "" THEN p ELSE [p EXCEPT !.obs = Append(@, value)]

\* Profile::pre_generate
ProfilePreGenerate(p) == [p EXCEPT !.finalized = TRUE]

\* Profile::generate with the random draw r: "" for a profile that saw nothing
ProfileGenerate(p, r) ==
    IF p.obs = <<>> THEN "" ELSE p.obs[(r % Len(p.obs)) + 1]

\* the k-th draw of the random source seeded with seed
Rng(seed, k) == seed + k

\* ------------------------------------------------------------- csv samples
\* the text of the field in data row r, column c: every cell is distinct
CellText(r, c) == "r" \o ToString(r) \o "c" \o ToString(c)

\* data rows whose r-th row has lens[r] fields
RowsOf(lens) == [r \in 1..Len(lens) |-> [c \in 1..lens[r] |-> CellText(r, c)]]

\* the field counts a data row under a header of ncols fields is given:
\* one short, exact, one long
RowLens(ncols) == {n \in {ncols - 1, ncols, ncols + 1} : n >= 1}

\* sequences over S of length at most n
SeqsUpTo(S, n) == UNION {[1..k -> S] : k \in 0..n}

Headers == SeqsUpTo(FieldNames, MaxCols)

Distinct(h) == \A i, j \in 1..Len(h) : h[i] = h[j] => i = j

\* ------------------------------------------------------ analyze_csv_data
\* u16: rec_cnt counts modulo 2^16
U16Modulus == 65536

RECURSIVE InsertHeaders(_, _, _)
\* for header in headers.iter() { self.profiles.insert(header, Profile::new()) }
InsertHeaders(profs, header, i) ==
    IF i > Len(header) THEN profs
    ELSE InsertHeaders(MapInsert(profs, header[i], ProfileNew), header, i + 1)

\* the entry the model logs for one Profile::analyze call
AnalyzeEvent(key, r, idx, value, p) ==
    [ev |-> "analyze", key |-> key, row |-> r, col |-> idx, value |-> value,
     finalized |-> p.finalized]

\* the entry the model logs for one Profile::pre_generate call
PreGenerateEvent(key, p) ==
    [ev |-> "pre_generate", key |-> key, row |-> 0, col |-> 0, value |-> "",
     finalized |-> p.finalized]

RECURSIVE AnalyzeFields(_, _, _, _, _)
\* for (idx, field) in record.iter().enumerate():
\*     self.profiles.get_mut(&profile_keys[idx]).unwrap().analyze(field)
\* profile_keys[idx] panics when idx is past the end of profile_keys
AnalyzeFields(st, profile_keys, record, r, idx) ==
    IF idx > Len(record) THEN st
    ELSE IF idx > Len(profile_keys) THEN [st EXCEPT !.panicked = TRUE]
    ELSE LET key == profile_keys[idx]
             e == AnalyzeEvent(key, r, idx, record[idx], st.profiles[key])
         IN AnalyzeFields([st EXCEPT !.profiles[key] = ProfileAnalyze(@, record[idx]),
                                     !.log = Append(@, e)],
                          profile_keys, record, r, idx + 1)

\* one iteration of for result in rdr.records(): the reader is not flexible,
\* so a record whose field count differs from the header's is an Err and
\* result.expect panics; rec_cnt = rec_cnt + 1 panics on overflow when the
\* build checks overflow and wraps otherwise
AnalyzeRecord(st, profile_keys, ncols, record, r, overflow_checks) ==
    IF Len(record) # ncols THEN [st EXCEPT !.panicked = TRUE]
    ELSE IF st.rec_cnt + 1 >= U16Modulus /\ overflow_checks
         THEN [st EXCEPT !.panicked = TRUE, !.rec_cnt = (@ + 1) % U16Modulus]
    ELSE AnalyzeFields([st EXCEPT !.rec_cnt = (@ + 1) % U16Modulus],
                       profile_keys, record, r, 1)

RECURSIVE AnalyzeRecords(_, _, _, _, _, _)
\* for result in rdr.records() { ... }: a panic ends the loop
AnalyzeRecords(st, profile_keys, ncols, rows, r, overflow_checks) ==
    IF st.panicked \/ r > Len(rows) THEN st
    ELSE AnalyzeRecords(AnalyzeRecord(st, profile_keys, ncols, rows[r], r,
                                      overflow_checks),
                        profile_keys, ncols, rows, r + 1, overflow_checks)

RECURSIVE PreGenerateKeys(_, _, _)
PreGenerateKeys(st, keys, i) ==
    IF i > Len(keys) THEN st
    ELSE LET key == keys[i]
             e == PreGenerateEvent(key, st.profiles[key])
         IN PreGenerateKeys([st EXCEPT !.profiles[key] = ProfilePreGenerate(@),
                                       !.log = Append(@, e)],
                            keys, i + 1)

\* a variant that finalises nothing
pre_generate_none(st) == st

\* self.profiles.iter_mut().for_each(|p| p.1.pre_generate())
pre_generate_all(st) == PreGenerateKeys(st, SortedKeys(DOMAIN st.profiles), 1)

\* a variant that returns the number of records counted
AnalyzeReturnCount(rec_cnt) == rec_cnt

\* Ok(1)
AnalyzeReturn(rec_cnt) == 1

\* the body of analyze_csv_data on the parsed sample: the state it leaves
AnalyzeRun(profs, header, rows, overflow_checks) ==
    LET inserted == InsertHeaders(profs, header, 1)
        profile_keys == SortedKeys(DOMAIN inserted)
        st0 == [profiles |-> inserted, log |-> <<>>, rec_cnt |-> 0, panicked |-> FALSE]
        looped == AnalyzeRecords(st0, profile_keys, Len(header), rows, 1, overflow_checks)
    IN IF looped.panicked THEN looped ELSE pre_generate_all(looped)

\* ---------------------------------------------------------------- records
NoSample ==
    [trained |-> FALSE, header |-> <<>>, rows |-> <<>>, fresh |-> TRUE,
     outcome |-> "none", count |-> 0, rec_cnt |-> 0, log |-> <<>>]

NoRet ==
    [op |-> "new", outcome |-> "ok", field |-> "", n |-> 0, seed |-> 0, path |-> "",
     sink_fail |-> 0, before |-> {}, changed |-> FALSE, text |-> "", record |-> <<>>,
     producers |-> <<>>, sink |-> <<>>]

\* DataSampleParser::new
Init ==
    /\ issues = FALSE
    /\ cfg = "None"
    /\ profiles = ProfilesMapNew
    /\ status = "running"
    /\ sample = NoSample
    /\ ret = NoRet
    /\ files = [f \in {} |-> 0]
    /\ archived = [p \in {} |-> 0]
    /\ used = 0

\* the effect of analyze_csv_data on the sample (header, rows)
Analyze(op, header, rows, overflow_checks) ==
    \E st \in {AnalyzeRun(profiles, header, rows, overflow_checks)} :
    LET outcome == IF st.panicked THEN "panic" ELSE "ok"
        count == IF st.panicked THEN 0 ELSE AnalyzeReturn(st.rec_cnt)
    IN /\ profiles' = st.profiles
       /\ status' = IF st.panicked THEN "panicked" ELSE "running"
       /\ sample' = [trained |-> TRUE, header |-> header, rows |-> rows,
                     fresh |-> DOMAIN profiles = {}, outcome |-> outcome,
                     count |-> count, rec_cnt |-> st.rec_cnt, log |-> st.log]
       /\ ret' = [NoRet EXCEPT !.op = op, !.outcome = outcome,
                               !.before = DOMAIN profiles]
       /\ used' = used + Len(rows)
       /\ UNCHANGED <<issues, cfg, files, archived>>

\* the samples the model feeds: a header and the field count of each data
\* row.  A sample without a header row has no data rows; the reader stops at
\* the first row whose field count is off, so a sample has at most one
SampleOk(header, lens) ==
    /\ used + Len(lens) <= MaxRows
    /\ header = <<>> => lens = <<>>
    /\ \A r \in 1..Len(lens) : lens[r] \in RowLens(Len(header))
    /\ \A r1, r2 \in 1..Len(lens) :
          lens[r1] # Len(header) /\ lens[r2] # Len(header) => r1 = r2

\* builds with and without overflow checks differ only when rec_cnt can
\* reach 2^16
OverflowModes(lens) == IF Len(lens) >= U16Modulus THEN BOOLEAN ELSE {FALSE}

analyze_csv_data ==
    /\ status = "running"
    /\ \E header \in Headers :
          \E lens \in SeqsUpTo(RowLens(Len(header)), MaxRows - used) :
             \E overflow_checks \in OverflowModes(lens) :
                /\ SampleOk(header, lens)
                /\ Analyze("analyze_csv_data", header, RowsOf(lens), overflow_checks)

\* analyze_csv_file when File::open fails: Err(e.to_string()).  A file that
\* opens is read whole and handed to analyze_csv_data, the action above
analyze_csv_file ==
    /\ status = "running"
    /\ ret' = [NoRet EXCEPT !.op = "analyze_csv_file", !.outcome = "err",
                            !.before = DOMAIN profiles]
    /\ UNCHANGED <<issues, cfg, profiles, status, sample, files, archived, used>>

\* ------------------------------------------------------------- generation
\* extract_headers: the keys of the map in iteration order
ExtractHeaders(profs) == SortedKeys(DOMAIN profs)

\* one generated record: profile.1.generate() for each profile in iteration
\* order, the j-th record of a call taking the next draws of the random source
GenerateFields(profs, seed, j) ==
    LET keys == SortedKeys(DOMAIN profs)
    IN [i \in 1..Len(keys) |->
            ProfileGenerate(profs[keys[i]], Rng(seed, (j - 1) * Len(keys) + i))]

\* the profile that produced each field of a generated record
GenerateProducers(profs) == SortedKeys(DOMAIN profs)

extract_headers ==
    /\ status = "running"
    /\ ret' = [NoRet EXCEPT !.op = "extract_headers", !.before = DOMAIN profiles,
                            !.record = ExtractHeaders(profiles)]
    /\ UNCHANGED <<issues, cfg, profiles, status, sample, files, archived, used>>

\* generate_by_field_name: self.profiles.get_mut(&field).unwrap().generate();
\* unwrap panics when the map has no such key
generate_by_field_name ==
    /\ status = "running"
    /\ \E field \in FieldNames, seed \in Seeds :
          IF field \in DOMAIN profiles
          THEN /\ ret' = [NoRet EXCEPT !.op = "generate_by_field_name", !.field = field,
                                  !.seed = seed, !.before = DOMAIN profiles,
                                  !.text = ProfileGenerate(profiles[field], Rng(seed, 1)),
                                  !.producers = <<field>>]
               /\ UNCHANGED <<issues, cfg, profiles, status, sample, files, archived, used>>
          ELSE /\ ret' = [NoRet EXCEPT !.op = "generate_by_field_name", !.field = field,
                                  !.seed = seed, !.before = DOMAIN profiles,
                                  !.outcome = "panic"]
               /\ status' = "panicked"
               /\ UNCHANGED <<issues, cfg, profiles, sample, files, archived, used>>

generate_record ==
    /\ status = "running"
    /\ \E seed \in Seeds :
          ret' = [NoRet EXCEPT !.op = "generate_record", !.seed = seed,
                          !.before = DOMAIN profiles,
                          !.record = GenerateFields(profiles, seed, 1),
                          !.producers = GenerateProducers(profiles)]
    /\ UNCHANGED <<issues, cfg, profiles, status, sample, files, archived, used>>

\* a call the csv writer completed
SinkWrite(fields, producers) ==
    [call |-> "write_record", fields |-> fields, producers |-> producers]

SinkFlush == [call |-> "flush", fields |-> <<>>, producers |-> <<>>]

\* a variant that writes no header row
CsvCallsNoHeader(profs, row_count, seed) ==
    [j \in 1..row_count |->
        SinkWrite(GenerateFields(profs, seed, j), GenerateProducers(profs))]
    \o <<SinkFlush>>

\* the calls generate_csv makes on the writer, in order: the header row,
\* row_count generated records, flush
CsvCalls(profs, row_count, seed) ==
    <<SinkWrite(ExtractHeaders(profs), <<>>)>>
    \o [j \in 1..row_count |->
            SinkWrite(GenerateFields(profs, seed, j), GenerateProducers(profs))]
    \o <<SinkFlush>>

\* generate_csv: from_path may fail, and so may every call on the writer;
\* sink_fail = 0 is a sink that never fails, sink_fail = 1 is a path that
\* cannot be created, sink_fail = k + 1 fails the k-th call on the writer
generate_csv ==
    /\ status = "running"
    /\ \E row_count \in 0..MaxGen, seed \in Seeds, sink_fail \in 0..(MaxGen + 3) :
          \E calls \in {CsvCalls(profiles, row_count, seed)} :
          LET failed == sink_fail >= 1 /\ sink_fail <= Len(calls) + 1
              made == IF failed THEN SubSeq(calls, 1, sink_fail - 2) ELSE calls
          IN /\ sink_fail <= row_count + 3
             /\ ret' = [NoRet EXCEPT !.op = "generate_csv", !.n = row_count,
                                !.seed = seed, !.sink_fail = sink_fail,
                                !.before = DOMAIN profiles,
                                !.outcome = IF failed THEN "err" ELSE "ok",
                                !.sink = made]
    /\ UNCHANGED <<issues, cfg, profiles, status, sample, files, archived, used>>

\* ---------------------------------------------------------------- archive
\* the serialised form of a Profile
ProfileToJson(p) == << <<"obs", p.obs>>, <<"finalized", p.finalized>> >>

\* a Profile read back from its serialised form
ProfileFromJson(j) == [obs |-> j[1][2], finalized |-> j[2][2]]

\* serde_json::to_string(&self): the fields of the struct, the map as the
\* name/value pairs of its iteration
ToJson(dsp) ==
    LET keys == SortedKeys(DOMAIN dsp.profiles)
    IN [issues |-> dsp.issues, cfg |-> dsp.cfg,
        profiles |-> [i \in 1..Len(keys) |->
                         <<keys[i], ProfileToJson(dsp.profiles[keys[i]])>>]]

RECURSIVE MapFromPairs(_, _, _)
\* a map built by inserting the name/value pairs in the order they are read
MapFromPairs(m, pairs, i) ==
    IF i > Len(pairs) THEN m
    ELSE MapFromPairs(MapInsert(m, pairs[i][1], ProfileFromJson(pairs[i][2])),
                      pairs, i + 1)

\* serde_json::from_str(&serialized).unwrap()
FromJson(json) ==
    [issues |-> json.issues, cfg |-> json.cfg,
     profiles |-> MapFromPairs(ProfilesMapNew, json.profiles, 1)]

\* a variant that opens the path as given
BarePath(path) == path

\* format!("{}.json", &path) in save
SaveFileName(path) == path \o ".json"

\* format!("{}.json", &path) in from_file
OpenFileName(path) == path \o ".json"

\* the parser as a value
Dsp == [issues |-> issues, cfg |-> cfg, profiles |-> profiles]

\* save: File::create may fail (Err, nothing written), write_all may fail
\* (Err, the file is left incomplete), else Ok(true)
save ==
    /\ status = "running"
    /\ \E path \in SavePaths, io \in {"ok", "create_err", "write_err"} :
          LET name == SaveFileName(path)
              content == [complete |-> io = "ok", json |-> ToJson(Dsp)]
          IN /\ ret' = [NoRet EXCEPT !.op = "save", !.path = path,
                                !.before = DOMAIN profiles,
                                !.outcome = IF io = "ok" THEN "ok" ELSE "err"]
             /\ files' = IF io = "create_err" THEN files
                         ELSE [f \in DOMAIN files \cup {name} |->
                                  IF f = name THEN content ELSE files[f]]
             /\ archived' =
                    IF io = "ok"
                    THEN [p \in DOMAIN archived \cup {path} |->
                             IF p = path THEN Dsp
                             ELSE archived[p]]
                    ELSE IF io = "write_err"
                    THEN [p \in DOMAIN archived \ {path} |-> archived[p]]
                    ELSE archived
    /\ UNCHANGED <<issues, cfg, profiles, status, sample, used>>

\* from_file: panics when the file cannot be opened or its content does not
\* parse, else the parser is the one read from the archive
from_file ==
    /\ status = "running"
    /\ \E path \in Paths :
          LET name == OpenFileName(path)
              readable == name \in DOMAIN files /\ files[name].complete
          IN IF readable
             THEN \E dsp \in {FromJson(files[name].json)} :
                     /\ issues' = dsp.issues
                     /\ cfg' = dsp.cfg
                     /\ profiles' = dsp.profiles
                     /\ sample' = NoSample
                     /\ ret' = [NoRet EXCEPT !.op = "from_file", !.path = path,
                                        !.before = DOMAIN profiles,
                                        !.changed = (dsp # Dsp)]
                     /\ UNCHANGED <<status, files, archived, used>>
             ELSE /\ ret' = [NoRet EXCEPT !.op = "from_file", !.path = path,
                                     !.before = DOMAIN profiles, !.outcome = "panic"]
                  /\ status' = "panicked"
                  /\ UNCHANGED <<issues, cfg, profiles, sample, files, archived, used>>

\* ---------------------------------------------------------- specifications
\* a process that trains the parser and generates from it
Next ==
    \/ analyze_csv_data
    \/ analyze_csv_file
    \/ extract_headers
    \/ generate_by_field_name
    \/ generate_record
    \/ generate_csv

Spec == Init /\ [][Next]_vars

\* a process that trains the parser, archives it and restores it
NextArchive ==
    \/ analyze_csv_data
    \/ save
    \/ from_file

SpecArchive == Init /\ [][NextArchive]_vars

\* ----------------------------------------------------- a long csv stream
\* analyze_csv_data on a stream too long to hold as one value: the loop over
\* rdr.records() is taken one record per step.  The rows read so far are
\* counted in used, the loop's rec_cnt is sample.rec_cnt, and sample.log holds
\* the Profile calls of the latest step
StreamRows == 65537

\* the headers of the streams: one column
StreamHeaders == {h \in Headers : Len(h) = 1}

\* a well-formed data row of ncols empty fields
EmptyRecord(ncols) == [i \in 1..ncols |-> ""]

\* builds with and without overflow checks differ only at the step on which
\* rec_cnt + 1 leaves u16
OverflowModesAt(rec_cnt) == IF rec_cnt + 1 >= U16Modulus THEN BOOLEAN ELSE {FALSE}

\* the reader is built, the header row is read and its Profiles inserted,
\* rec_cnt starts at <u16>::min_value()
stream_open ==
    /\ status = "running"
    /\ sample = NoSample
    /\ \E header \in StreamHeaders :
          /\ profiles' = InsertHeaders(profiles, header, 1)
          /\ sample' = [NoSample EXCEPT !.header = header, !.outcome = "reading",
                                        !.fresh = DOMAIN profiles = {}]
    /\ ret' = [NoRet EXCEPT !.op = "analyze_csv_data", !.outcome = "reading",
                            !.before = DOMAIN profiles]
    /\ UNCHANGED <<issues, cfg, status, files, archived, used>>

\* the reader yields one more record: one iteration of the loop.  The key
\* set of profiles does not change inside the loop, so its sorted keys are
\* the profile_keys collected before the loop
stream_record ==
    /\ status = "running"
    /\ sample.outcome = "reading"
    /\ used < StreamRows
    /\ \E overflow_checks \in OverflowModesAt(sample.rec_cnt) :
       \E st \in {AnalyzeRecord([profiles |-> profiles, log |-> <<>>,
                                 rec_cnt |-> sample.rec_cnt, panicked |-> FALSE],
                                SortedKeys(DOMAIN profiles), Len(sample.header),
                                EmptyRecord(Len(sample.header)), used + 1,
                                overflow_checks)} :
          /\ profiles' = st.profiles
          /\ status' = IF st.panicked THEN "panicked" ELSE "running"
          /\ sample' = [sample EXCEPT !.rec_cnt = st.rec_cnt, !.log = st.log,
                                      !.outcome = IF st.panicked THEN "panic"
                                                  ELSE "reading"]
          /\ ret' = [ret EXCEPT !.outcome = IF st.panicked THEN "panic"
                                            ELSE "reading"]
    /\ used' = used + 1
    /\ UNCHANGED <<issues, cfg, files, archived>>

\* the reader is exhausted: every Profile is pre_generated and Ok(1) returned
stream_end ==
    /\ status = "running"
    /\ sample.outcome = "reading"
    /\ \E st \in {pre_generate_all([profiles |-> profiles, log |-> <<>>,
                                    rec_cnt |-> sample.rec_cnt,
                                    panicked |-> FALSE])} :
          /\ profiles' = st.profiles
          /\ sample' = [sample EXCEPT !.trained = TRUE, !.outcome = "ok",
                                      !.count = AnalyzeReturn(st.rec_cnt),
                                      !.log = st.log]
    /\ ret' = [ret EXCEPT !.outcome = "ok"]
    /\ UNCHANGED <<issues, cfg, status, files, archived, used>>

NextStream ==
    \/ stream_open
    \/ stream_record
    \/ stream_end

SpecStream == Init /\ [][NextStream]_vars

\* ------------------------------------------------------------- properties
\* the positions of the log at which Profile::analyze took field col of row r
AnalyzedAt(log, r, col) ==
    {k \in 1..Len(log) : log[k].ev = "analyze" /\ log[k].row = r /\ log[k].col = col}

AllFinalized == \A key \in DOMAIN profiles : profiles[key].finalized

\* C1 as claimed: a successful analyze_csv_data returns the number of data
\* rows it consumed, 0 for zero rows and k for k rows.
C1_ReturnsRowCount ==
    sample.outcome = "ok" => sample.count = Len(sample.rows)

\* C1 (amended): a successful analyze_csv_data returns 1, whatever the number
\* of data rows it consumed.
C1_ReturnsOne ==
    sample.outcome = "ok" => sample.count = 1

C1_Witness ==
    /\ sample.outcome = "ok"
    /\ Len(sample.rows) = 2
    /\ sample.rec_cnt = 2
    /\ sample.count = 1

\* C2: after analyze_csv_data on a header of distinct names, extract_headers
\* returns the names in the order of the header row.
C2_HeaderOrderPreserved ==
    (/\ ret.op = "extract_headers"
     /\ sample.outcome = "ok"
     /\ sample.fresh
     /\ Distinct(sample.header))
    => ret.record = sample.header

\* C3: every field of every data row is analyzed once, by the Profile
\* registered under the header name of its column.
C3_FieldRoutedToItsHeader ==
    (sample.outcome = "ok" /\ Distinct(sample.header))
    => \A r \in 1..Len(sample.rows) : \A i \in 1..Len(sample.rows[r]) :
          /\ Cardinality(AnalyzedAt(sample.log, r, i)) = 1
          /\ \A k \in AnalyzedAt(sample.log, r, i) :
                sample.log[k].key = sample.header[i]

\* C4: a header that names a field twice is rejected with DuplicateField and
\* no field of any data row is analyzed.
C4_DuplicateHeaderRejected ==
    (sample.trained /\ ~Distinct(sample.header))
    => /\ sample.outcome = "DuplicateField"
       /\ \A k \in 1..Len(sample.log) : sample.log[k].ev # "analyze"

\* C5: a data row whose field count differs from the header's does not abort
\* the call: the fields that line up with a header are analyzed, issues
\* becomes true and the later rows are analyzed too.
C5_RaggedRowAbsorbed ==
    (/\ sample.trained
     /\ Distinct(sample.header)
     /\ \E r \in 1..Len(sample.rows) : Len(sample.rows[r]) # Len(sample.header))
    => /\ sample.outcome = "ok"
       /\ issues = TRUE
       /\ \A r \in 1..Len(sample.rows) : \A i \in 1..Len(sample.rows[r]) :
             i <= Len(sample.header) => AnalyzedAt(sample.log, r, i) # {}

\* C6: when analyze_csv_data returns Ok, pre_generate has been called on
\* every Profile of the parser after the last field was analyzed, so every
\* Profile is finalized whenever a generate call runs.
C6_FinalizedAfterLastRow ==
    /\ sample.outcome = "ok" =>
          /\ \A key \in DOMAIN profiles :
                \E k \in 1..Len(sample.log) :
                   sample.log[k].ev = "pre_generate" /\ sample.log[k].key = key
          /\ \A k, m \in 1..Len(sample.log) :
                (sample.log[k].ev = "pre_generate" /\ sample.log[m].ev = "analyze")
                => m < k
          /\ AllFinalized
    /\ ret.op \in {"generate_by_field_name", "generate_record", "generate_csv"}
          /\ ret.outcome = "ok" => AllFinalized

C6_Witness ==
    /\ sample.outcome = "ok"
    /\ Len(sample.rows) = 2
    /\ Cardinality(DOMAIN profiles) = 2
    /\ Len(sample.log) = 6
    /\ ret.op = "generate_record"

\* C7: generate_by_field_name with a name that is no key of the map returns
\* UnknownField to the caller and does not crash.
C7_UnknownFieldIsError ==
    (ret.op = "generate_by_field_name" /\ ret.field \notin ret.before)
    => ret.outcome = "UnknownField" /\ status = "running"

\* C8: after analyze_csv_data on a header of n distinct names, generate_record
\* returns n values, the i-th produced by the Profile of the i-th header name,
\* each the empty string when the sample had no data rows.
C8_RecordInHeaderOrder ==
    (/\ ret.op = "generate_record"
     /\ sample.outcome = "ok"
     /\ sample.fresh
     /\ Distinct(sample.header))
    => /\ Len(ret.record) = Len(sample.header)
       /\ ret.producers = sample.header
       /\ sample.rows = <<>> => \A i \in 1..Len(ret.record) : ret.record[i] = ""

\* C9: generate_csv with row count n on a sink that never fails returns Ok
\* after n + 1 write_record calls and one flush, in this order: the header
\* row, then n rows with one value per field, the i-th value produced by the
\* Profile of the i-th name of the header row.
C9_CsvHeaderThenRows ==
    (ret.op = "generate_csv" /\ ret.sink_fail = 0)
    => /\ ret.outcome = "ok"
       /\ Len(ret.sink) = ret.n + 2
       /\ ret.sink[ret.n + 2].call = "flush"
       /\ \A k \in 1..(ret.n + 1) : ret.sink[k].call = "write_record"
       /\ ret.sink[1].fields = ExtractHeaders(profiles)
       /\ \A k \in 2..(ret.n + 1) :
             /\ Len(ret.sink[k].fields) = Len(ret.sink[1].fields)
             /\ ret.sink[k].producers = ret.sink[1].fields

C9_Witness ==
    /\ ret.op = "generate_csv"
    /\ ret.sink_fail = 0
    /\ ret.n = 1
    /\ Len(ret.sink) = 3
    /\ Len(ret.sink[1].fields) = 2
    /\ \E i \in 1..2 : ret.sink[2].fields[i] # ""

C11_PhaseDiscipline ==
    /\ \A k \in 1..Len(sample.log) :
          sample.log[k].ev = "analyze" => ~sample.log[k].finalized
    /\ (/\ ret.op \in {"generate_by_field_name", "generate_record", "generate_csv"}
        /\ ret.outcome = "ok")
       => \A key \in ret.before : profiles[key].finalized

\* C12: the row counter of analyze_csv_data never overflows: on a stream of
\* well-formed rows of any length (StreamRows is more than 65535 and far less
\* than 2^32) the call does not panic, the counter equals the number of rows
\* read so far, and every field of the row just read was analyzed.
C12_RowCounterNeverOverflows ==
    /\ status = "running"
    /\ sample.rec_cnt = used
    /\ (sample.outcome = "reading" /\ used > 0)
       => /\ Len(sample.log) = Len(sample.header)
          /\ \A k \in 1..Len(sample.log) :
                sample.log[k].ev = "analyze" /\ sample.log[k].row = used

====
